---- MODULE Spec2Model ----
(***************************************************************************)
(* Model of the amortization engine of CreditAnalyzer                      *)
(* (src/streamlit_app.py): calculate_schedule and the two calls the page   *)
(* makes of it, first without and then with prepayment.                    *)
(*                                                                         *)
(* Numbers: the Python code computes in binary64.  The model computes the  *)
(* same expressions, in the same order, over exact rationals <<n, d>>      *)
(* (d > 0, lowest terms), so a result here is what the code's arithmetic   *)
(* gives before rounding.  TLC's integers are 32 bits wide, which is why   *)
(* the inputs are drawn from rates whose powers stay small (monthly rates  *)
(* 0, 1/2 and 1).                                                          *)
(***************************************************************************)
EXTENDS Integers, Sequences, FiniteSets

(***************************************************************************)
(* Exact rational arithmetic: the +, -, *, /, ** and comparisons of the    *)
(* source.                                                                 *)
(***************************************************************************)
Abs(n) == IF n < 0 THEN -n ELSE n

RECURSIVE GCD(_, _)
GCD(a, b) == IF b = 0 THEN a ELSE GCD(b, a % b)

Norm(n, d) ==
  LET g == GCD(Abs(n), d)
  IN  <<n \div g, d \div g>>

Q(n) == <<n, 1>>

QAdd(x, y) ==
  LET g == GCD(x[2], y[2])
  IN  Norm(x[1] * (y[2] \div g) + y[1] * (x[2] \div g), (x[2] \div g) * y[2])

QNeg(x) == <<-x[1], x[2]>>

QSub(x, y) == QAdd(x, QNeg(y))

QMul(x, y) ==
  LET g1 == GCD(Abs(x[1]), y[2])
      g2 == GCD(Abs(y[1]), x[2])
  IN  Norm((x[1] \div g1) * (y[1] \div g2), (x[2] \div g2) * (y[2] \div g1))

QInv(x) == IF x[1] < 0 THEN <<-x[2], -x[1]>> ELSE <<x[2], x[1]>>

QDiv(x, y) == QMul(x, QInv(y))

RECURSIVE QPow(_, _)
QPow(x, n) == IF n = 0 THEN Q(1) ELSE QMul(x, QPow(x, n - 1))

\* x < y, by comparing integer parts and then, Euclid-style, the reciprocals of
\* the fractional parts: no cross product is formed.
RECURSIVE QLt(_, _)
QLt(x, y) ==
  LET fx == x[1] \div x[2]
      fy == y[1] \div y[2]
      rx == x[1] - fx * x[2]
      ry == y[1] - fy * y[2]
  IN  IF fx # fy THEN fx < fy
      ELSE IF ry = 0 THEN FALSE
      ELSE IF rx = 0 THEN TRUE
      ELSE QLt(<<y[2], ry>>, <<x[2], rx>>)

QLeq(x, y) == ~QLt(y, x)

QGeq(x, y) == ~QLt(x, y)

QGt(x, y) == QLt(y, x)

QMax(x, y) == IF QLt(x, y) THEN y ELSE x

Zero == Q(0)

(***************************************************************************)
(* Calendar dates <<year, month, day>> and relativedelta(months=1).        *)
(***************************************************************************)
IsLeap(y) == (y % 4 = 0 /\ y % 100 # 0) \/ y % 400 = 0

DaysInMonth(y, m) ==
  IF m = 2 THEN (IF IsLeap(y) THEN 29 ELSE 28)
  ELSE IF m \in {4, 6, 9, 11} THEN 30 ELSE 31

Min(a, b) == IF a < b THEN a ELSE b

\* date + relativedelta(months=1): the next month, the day clamped to its length.
AddOneMonth(d) ==
  LET y == IF d[2] = 12 THEN d[1] + 1 ELSE d[1]
      m == IF d[2] = 12 THEN 1 ELSE d[2] + 1
  IN  <<y, m, Min(d[3], DaysInMonth(y, m))>>

(***************************************************************************)
(* Constants of calculate_schedule.                                        *)
(***************************************************************************)
\* Mutant: the ceiling one period too high.
max_months_plus_one == 600 + 1

max_months == 600

\* The 0.01 of "if remaining_balance <= 0.01".
Epsilon == <<1, 100>>

\* Python's None (for fixed_payment); years = None is written 0.
None == <<>>

(***************************************************************************)
(* Bounds of the model and the inputs drawn.                               *)
(***************************************************************************)
MaxYears == 2

\* A term beyond the 600-period ceiling.
LongYears == 51

\* Fixed payments are drawn as threshold + k, k in 0..MaxOver.
MaxOver == 1

\* One-off extras are registered for periods 1..MaxIrregularMonth.
MaxIrregularMonth == 1

Principals == {<<1, 200>>, <<1, 10>>, Q(12), Q(1000)}

\* annual_rate, in percent: monthly rates 0, 1/2 and 1.
AnnualRates == {Q(0), Q(600), Q(1200)}

\* (1 + r)^(12 * years) must fit 32 bits: only r = 0 and r = 1 with one year.
TermYears(rate) ==
  IF rate = Q(0) THEN (1 .. MaxYears) \cup {LongYears}
  ELSE IF rate = Q(1200) THEN {1}
  ELSE {}

MonthlyRateOf(rate) == QDiv(QDiv(rate, Q(12)), Q(100))

\* Payments one unit below the feasibility threshold principal * monthly_rate,
\* at it, a few units above it, and large ones (the threshold plus a half or all
\* of the principal).
FixedPayments(p, rate) ==
  LET t == QMul(p, MonthlyRateOf(rate))
  IN  {QAdd(t, Q(k)) : k \in (-1) .. MaxOver}
        \cup {QAdd(t, QDiv(p, Q(2))), QAdd(t, p)}

StartDates == {<<2024, 1, 31>>, <<2023, 3, 15>>}

MonthlyExtras == {Q(0), Q(1), Q(100)}

IrregularAmounts == {Q(5), Q(500)}

\* The dicts {period: amount} over periods 1..MaxIrregularMonth.
IrregularDicts ==
  UNION {[S -> IrregularAmounts] : S \in SUBSET (1 .. MaxIrregularMonth)}

EmptyDict == [k \in {} |-> Zero]

VARIABLES
  principal, annual_rate, start_date, years, fixed_payment,
  monthly_extra, irregular_payments,
  monthly_rate, base_payment, remaining_balance, current_date, i, schedule,
  pc, phase, df_base, df_real, saved_money, saved_months

vars == <<principal, annual_rate, start_date, years, fixed_payment,
          monthly_extra, irregular_payments,
          monthly_rate, base_payment, remaining_balance, current_date, i,
          schedule, pc, phase, df_base, df_real, saved_money, saved_months>>

loan == <<principal, annual_rate, start_date, years, fixed_payment>>

locals == <<monthly_rate, base_payment, remaining_balance, current_date, i, schedule>>

(***************************************************************************)
(* calculate_schedule                                                      *)
(***************************************************************************)
\* Mutant: the threshold itself is accepted.
InfeasibleStrict(base, p, r) == QLt(base, QMul(p, r))

\* Mutant: a payment up to one unit above the threshold is rejected.
InfeasibleOneAbove(base, p, r) == QLeq(base, QAdd(QMul(p, r), Q(1)))

\* base_payment <= first_month_interest
Infeasible(base, p, r) == QLeq(base, QMul(p, r))

\* Mutant: the payment of a term one month longer.
AnnuityPaymentOneMonthMore(p, r, n) ==
  IF QGt(r, Zero)
  THEN QDiv(QMul(p, QMul(r, QPow(QAdd(Q(1), r), n + 1))),
            QSub(QPow(QAdd(Q(1), r), n + 1), Q(1)))
  ELSE QDiv(p, Q(n + 1))

\* The annuity payment of the fixed-term mode.
AnnuityPayment(p, r, n) ==
  IF QGt(r, Zero)
  THEN QDiv(QMul(p, QMul(r, QPow(QAdd(Q(1), r), n))),
            QSub(QPow(QAdd(Q(1), r), n), Q(1)))
  ELSE QDiv(p, Q(n))

\* Mutant: the one-off extra is taken off the payment.
ExtraForSubtracted(k) ==
  IF k \in DOMAIN irregular_payments
  THEN QSub(monthly_extra, irregular_payments[k])
  ELSE monthly_extra

\* monthly_extra plus the one-off extra registered for period k.
ExtraFor(k) ==
  IF k \in DOMAIN irregular_payments
  THEN QAdd(monthly_extra, irregular_payments[k])
  ELSE monthly_extra

\* if remaining_balance <= 0.01: break
PaidOff(balance) == QLeq(balance, Epsilon)

\* Mutant: the payoff branch is never taken (no clamp of the last payment).
IsPayoffNever(attempt, balance, interest) == FALSE

\* total_payment_attempt >= remaining_balance + interest_payment
IsPayoff(attempt, balance, interest) == QGeq(attempt, QAdd(balance, interest))

\* Mutant: the floor at zero is missing.
PayoffExtraNoFloor(total, interest, base) ==
  QSub(total, QAdd(interest, QSub(base, interest)))

\* extra_paid_in_record of the payoff branch.
PayoffExtra(total, interest, base) ==
  QMax(Zero, QSub(total, QAdd(interest, QSub(base, interest))))

\* Mutant: the payoff record's principal portion is the whole payment.
PeriodRecordPayoffPrincipalIsTotal(k, balance, date) ==
  LET interest_payment == QMul(balance, monthly_rate)
      extra == ExtraFor(k)
      total_payment_attempt == QAdd(base_payment, extra)
  IN  IF IsPayoff(total_payment_attempt, balance, interest_payment)
      THEN [Misiats |-> k, Data |-> date,
            Platizh |-> QAdd(balance, interest_payment),
            Tilo |-> QAdd(balance, interest_payment),
            Vidsotky |-> interest_payment,
            Dostrokovo |-> PayoffExtra(QAdd(balance, interest_payment),
                                       interest_payment, base_payment),
            Zalyshok |-> Zero]
      ELSE [Misiats |-> k, Data |-> date,
            Platizh |-> total_payment_attempt,
            Tilo |-> QSub(total_payment_attempt, interest_payment),
            Vidsotky |-> interest_payment,
            Dostrokovo |-> extra,
            Zalyshok |-> QSub(balance, QSub(total_payment_attempt, interest_payment))]

\* Mutant: the interest is taken on the original principal.
PeriodRecordInterestOnPrincipal(k, balance, date) ==
  LET interest_payment == QMul(principal, monthly_rate)
      extra == ExtraFor(k)
      total_payment_attempt == QAdd(base_payment, extra)
  IN  IF IsPayoff(total_payment_attempt, balance, interest_payment)
      THEN [Misiats |-> k, Data |-> date,
            Platizh |-> QAdd(balance, interest_payment),
            Tilo |-> balance,
            Vidsotky |-> interest_payment,
            Dostrokovo |-> PayoffExtra(QAdd(balance, interest_payment),
                                       interest_payment, base_payment),
            Zalyshok |-> Zero]
      ELSE [Misiats |-> k, Data |-> date,
            Platizh |-> total_payment_attempt,
            Tilo |-> QSub(total_payment_attempt, interest_payment),
            Vidsotky |-> interest_payment,
            Dostrokovo |-> extra,
            Zalyshok |-> QSub(balance, QSub(total_payment_attempt, interest_payment))]

\* The record appended in period k with the balance and date before it.
PeriodRecord(k, balance, date) ==
  LET interest_payment == QMul(balance, monthly_rate)
      extra == ExtraFor(k)
      total_payment_attempt == QAdd(base_payment, extra)
  IN  IF IsPayoff(total_payment_attempt, balance, interest_payment)
      THEN [Misiats |-> k, Data |-> date,
            Platizh |-> QAdd(balance, interest_payment),
            Tilo |-> balance,
            Vidsotky |-> interest_payment,
            Dostrokovo |-> PayoffExtra(QAdd(balance, interest_payment),
                                       interest_payment, base_payment),
            Zalyshok |-> Zero]
      ELSE [Misiats |-> k, Data |-> date,
            Platizh |-> total_payment_attempt,
            Tilo |-> QSub(total_payment_attempt, interest_payment),
            Vidsotky |-> interest_payment,
            Dostrokovo |-> extra,
            Zalyshok |-> QSub(balance, QSub(total_payment_attempt, interest_payment))]

\* Lines 41-62: the locals, the base payment and the infeasibility return.
Begin ==
  /\ pc = "begin"
  /\ monthly_rate' = MonthlyRateOf(annual_rate)
  /\ schedule' = <<>>
  /\ remaining_balance' = principal
  /\ current_date' = start_date
  /\ i' = 1
  /\ IF fixed_payment # None
     THEN /\ base_payment' = fixed_payment
          /\ pc' = IF Infeasible(fixed_payment, principal, monthly_rate')
                   THEN "return_empty" ELSE "loop"
     ELSE /\ base_payment' = AnnuityPayment(principal, monthly_rate', years * 12)
          /\ pc' = "loop"
  /\ UNCHANGED <<loan, monthly_extra, irregular_payments, phase, df_base, df_real,
                 saved_money, saved_months>>

\* Lines 64-99: one pass of the loop body.
Iterate ==
  /\ pc = "loop"
  /\ i <= max_months
  /\ ~PaidOff(remaining_balance)
  /\ LET rec == PeriodRecord(i, remaining_balance, current_date)
     IN  /\ schedule' = Append(schedule, rec)
         /\ remaining_balance' = rec.Zalyshok
  /\ current_date' = AddOneMonth(current_date)
  /\ i' = i + 1
  /\ UNCHANGED <<loan, monthly_extra, irregular_payments, monthly_rate, base_payment,
                 pc, phase, df_base, df_real, saved_money, saved_months>>

\* The loop ends: the break of line 66, or range(1, max_months + 1) exhausted.
LoopExit ==
  /\ pc = "loop"
  /\ (i > max_months \/ PaidOff(remaining_balance))
  /\ pc' = "return"
  /\ UNCHANGED <<loan, monthly_extra, irregular_payments, locals, phase, df_base,
                 df_real, saved_money, saved_months>>

\* The value returned: pd.DataFrame() at line 54, pd.DataFrame(schedule) at 101.
Returned == IF pc = "return_empty" THEN <<>> ELSE schedule

(***************************************************************************)
(* The caller: the base schedule, then the schedule with prepayment, then  *)
(* the comparison.                                                         *)
(***************************************************************************)
\* The sum of the rationals q[lo..hi], halving the range (the addition is exact,
\* so the order of the summands does not matter).
RECURSIVE SumQ(_, _, _)
SumQ(q, lo, hi) ==
  IF lo > hi THEN Zero
  ELSE IF lo = hi THEN q[lo]
  ELSE LET mid == (lo + hi) \div 2
       IN  QAdd(SumQ(q, lo, mid), SumQ(q, mid + 1, hi))

\* df["Vidsotky"].sum()
TotalInterest(df) == SumQ([k \in 1 .. Len(df) |-> df[k].Vidsotky], 1, Len(df))

\* Line 143: df_base = calculate_schedule(...) returns.
ReturnBase ==
  /\ pc \in {"return", "return_empty"}
  /\ phase = "base"
  /\ df_base' = Returned
  /\ pc' = "edit"
  /\ UNCHANGED <<loan, monthly_extra, irregular_payments, locals, phase, df_real,
                 saved_money, saved_months>>

\* Lines 150-193: the prepayment is entered and calculate_schedule called again.
CallReal ==
  /\ pc = "edit"
  /\ \E me \in MonthlyExtras, ip \in IrregularDicts :
       /\ monthly_extra' = me
       /\ irregular_payments' = ip
  /\ phase' = "real"
  /\ pc' = "begin"
  /\ UNCHANGED <<loan, locals, df_base, df_real, saved_money, saved_months>>

\* Lines 188-202: df_real is returned and compared with df_base.
ReturnReal ==
  /\ pc \in {"return", "return_empty"}
  /\ phase = "real"
  /\ df_real' = Returned
  /\ IF Returned = <<>>
     THEN UNCHANGED <<saved_money, saved_months>>
     ELSE /\ saved_money' = QSub(TotalInterest(df_base), TotalInterest(Returned))
          /\ saved_months' = Len(df_base) - Len(Returned)
  /\ pc' = "done"
  /\ UNCHANGED <<loan, monthly_extra, irregular_payments, locals, phase, df_base>>

Init ==
  /\ principal \in Principals
  /\ annual_rate \in AnnualRates
  /\ start_date \in StartDates
  /\ \/ /\ fixed_payment = None
        /\ years \in TermYears(annual_rate)
     \/ /\ years = 0
        /\ fixed_payment \in FixedPayments(principal, annual_rate)
  /\ monthly_extra = Zero
  /\ irregular_payments = EmptyDict
  /\ monthly_rate = Zero
  /\ base_payment = Zero
  /\ remaining_balance = Zero
  /\ current_date = start_date
  /\ i = 1
  /\ schedule = <<>>
  /\ pc = "begin"
  /\ phase = "base"
  /\ df_base = <<>>
  /\ df_real = <<>>
  /\ saved_money = Zero
  /\ saved_months = 0

Next == Begin \/ Iterate \/ LoopExit \/ ReturnBase \/ CallReal \/ ReturnReal

Spec == Init /\ [][Next]_vars

(***************************************************************************)
(* Properties.                                                             *)
(***************************************************************************)
\* A call of calculate_schedule has run its loop to the return of line 101.
AtReturn == pc = "return"

\* A call of calculate_schedule is at one of its two returns (lines 54, 101).
Ended == pc \in {"return", "return_empty"}

NoPrepayment == monthly_extra = Zero /\ DOMAIN irregular_payments = {}

TermMode == fixed_payment = None

\* The balance before period k of schedule s.
BalanceBefore(s, k) == IF k = 1 THEN principal ELSE s[k - 1].Zalyshok

\* What was supplied as extra for period k.
SuppliedExtra(k) ==
  QAdd(monthly_extra,
       IF k \in DOMAIN irregular_payments THEN irregular_payments[k] ELSE Zero)

TotalPrincipal(df) == SumQ([k \in 1 .. Len(df) |-> df[k].Tilo], 1, Len(df))

QAbs(x) == IF x[1] < 0 THEN QNeg(x) ELSE x

\* The feasibility threshold principal * monthly_rate, from the inputs.
Threshold == QMul(principal, QDiv(annual_rate, Q(1200)))

\* start + relativedelta(months=n): n calendar months later, the day clamped.
AddMonths(d, n) ==
  LET t == (d[2] - 1) + n
      y == d[1] + t \div 12
      m == (t % 12) + 1
  IN  <<y, m, Min(d[3], DaysInMonth(y, m))>>

\* C1 as stated: in fixed-term mode with no prepayment the returned schedule has
\* exactly years * 12 records and its last record's balance is within 0.01 of 0.
C1_TermLengthAlways ==
  (AtReturn /\ TermMode /\ NoPrepayment) =>
    /\ Len(schedule) = years * 12
    /\ QLeq(schedule[Len(schedule)].Zalyshok, Epsilon)

\* C1 amended: the same, for terms of at most 600 months whose balance before
\* the last planned period, base_payment / (1 + monthly_rate), is above 0.01.
C1_TermLength ==
  (/\ AtReturn /\ TermMode /\ NoPrepayment
   /\ years * 12 <= 600
   /\ QGt(QDiv(base_payment, QAdd(Q(1), monthly_rate)), <<1, 100>>)) =>
    /\ Len(schedule) = years * 12
    /\ QLeq(schedule[Len(schedule)].Zalyshok, <<1, 100>>)
    /\ QGeq(schedule[Len(schedule)].Zalyshok, Zero)

C1_Witness ==
  /\ AtReturn /\ TermMode /\ NoPrepayment
  /\ QGt(monthly_rate, Zero)
  /\ principal = Q(1000)
  /\ Len(schedule) = 12
  /\ schedule[12].Zalyshok = Zero

\* C2: the schedule with prepayment is never longer than the base schedule and
\* never carries more interest; the caller's savings are never negative.
C2_PrepaymentNeverWorse ==
  pc = "done" =>
    /\ Len(df_real) <= Len(df_base)
    /\ QLeq(TotalInterest(df_real), TotalInterest(df_base))
    /\ df_real # <<>> => (saved_months >= 0 /\ QGeq(saved_money, Zero))

C2_Witness ==
  /\ pc = "done"
  /\ ~NoPrepayment
  /\ Len(df_real) < Len(df_base)
  /\ QGt(saved_money, Zero)
  /\ saved_months > 0

\* C3: a fixed payment at or below principal * monthly_rate never enters the
\* loop and returns the empty result, whatever prepayment is supplied.
C3_InfeasibleIsEmpty ==
  (fixed_payment # None /\ QLeq(fixed_payment, Threshold)) =>
    /\ pc \notin {"loop", "return"}
    /\ schedule = <<>>
    /\ df_base = <<>>
    /\ df_real = <<>>

C3_Witness ==
  /\ pc = "done"
  /\ fixed_payment # None
  /\ fixed_payment = Threshold
  /\ QGt(Threshold, Zero)
  /\ ~NoPrepayment
  /\ df_real = <<>>

\* C4 as stated: a fixed payment one unit above the threshold, with no
\* prepayment, gives a non-empty schedule that ends with balance 0 (within 0.01).
C4_OneAboveConverges ==
  (/\ Ended /\ ~TermMode /\ NoPrepayment
   /\ fixed_payment = QAdd(Threshold, Q(1))) =>
    /\ Returned # <<>>
    /\ QLeq(Returned[Len(Returned)].Zalyshok, <<1, 100>>)

\* C4 amended: for a principal above 0.01 such a payment is accepted (the
\* schedule is non-empty) and the schedule either ends with balance 0 (within
\* 0.01) or is cut at exactly 600 records with a balance above 0.01.
C4_OneAboveAccepted ==
  (/\ Ended /\ ~TermMode /\ NoPrepayment
   /\ fixed_payment = QAdd(Threshold, Q(1))
   /\ QGt(principal, <<1, 100>>)) =>
    /\ Returned # <<>>
    /\ Len(Returned) <= 600
    /\ \/ QLeq(Returned[Len(Returned)].Zalyshok, <<1, 100>>)
       \/ /\ Len(Returned) = 600
          /\ QGt(Returned[600].Zalyshok, <<1, 100>>)

C4_Witness ==
  /\ AtReturn /\ ~TermMode /\ NoPrepayment
  /\ fixed_payment = QAdd(Threshold, Q(1))
  /\ QGt(monthly_rate, Zero)
  /\ Len(schedule) > 3
  /\ schedule[Len(schedule)].Zalyshok = Zero

\* C5: in a returned schedule every record's balance is >= 0 and strictly below the balance before it
\* (the principal, for the first record); only the last record's can be 0.
C5_BalanceDecreases ==
  AtReturn =>
    \A k \in 1 .. Len(schedule) :
      /\ QGeq(schedule[k].Zalyshok, Zero)
      /\ QLt(schedule[k].Zalyshok, BalanceBefore(schedule, k))
      /\ schedule[k].Zalyshok = Zero => k = Len(schedule)

C5_Witness ==
  /\ AtReturn
  /\ ~NoPrepayment
  /\ QGt(monthly_rate, Zero)
  /\ Len(schedule) >= 3
  /\ schedule[Len(schedule)].Zalyshok = Zero

\* C6 as stated: in fixed-payment mode the principal portions of the returned
\* schedule sum to the principal, within 0.01.
C6_PrincipalReconstructedAlways ==
  (AtReturn /\ ~TermMode) =>
    QLeq(QAbs(QSub(principal, TotalPrincipal(schedule))), <<1, 100>>)

\* C6 amended: the principal portions sum to the principal less the final
\* balance; so to the principal within 0.01 unless the schedule was cut at the
\* 600-period ceiling with a balance above 0.01.
C6_PrincipalReconstructed ==
  (AtReturn /\ ~TermMode) =>
    /\ QAdd(TotalPrincipal(schedule), remaining_balance) = principal
    /\ (Len(schedule) < 600 \/ QLeq(remaining_balance, <<1, 100>>)) =>
         QLeq(QAbs(QSub(principal, TotalPrincipal(schedule))), <<1, 100>>)

C6_Witness ==
  /\ AtReturn /\ ~TermMode
  /\ QGt(monthly_rate, Zero)
  /\ Len(schedule) >= 3
  /\ TotalPrincipal(schedule) = principal

\* C7: the date of record k is the start date plus k - 1 calendar months.
C7_DateIsStartPlusMonths ==
  \A k \in 1 .. Len(schedule) :
    schedule[k].Data = AddMonths(start_date, k - 1)

\* C8: a schedule never has more than 600 records, its period indices are
\* 1..N in order, and a loop that ends with the balance still above 0.01
\* returns exactly 600 records, the last with that nonzero balance.
C8_CeilingAndIndices ==
  /\ Len(schedule) <= 600 /\ Len(df_base) <= 600 /\ Len(df_real) <= 600
  /\ \A k \in 1 .. Len(schedule) : schedule[k].Misiats = k
  /\ (AtReturn /\ QGt(remaining_balance, <<1, 100>>)) =>
       /\ Len(schedule) = 600
       /\ schedule[600].Zalyshok = remaining_balance
       /\ Returned = schedule

C8_Witness ==
  /\ AtReturn
  /\ ~TermMode
  /\ Len(schedule) = 600
  /\ QGt(schedule[600].Zalyshok, <<1, 100>>)

\* C9: in every record of a returned schedule the total payment is principal portion plus interest
\* portion, the interest portion is the balance before the period times the
\* monthly rate, and the balance after is the balance before less the principal
\* portion.
C9_RecordArithmetic ==
  AtReturn =>
    \A k \in 1 .. Len(schedule) :
      LET before == BalanceBefore(schedule, k)
      IN  /\ schedule[k].Platizh = QAdd(schedule[k].Tilo, schedule[k].Vidsotky)
          /\ schedule[k].Vidsotky = QMul(before, QDiv(annual_rate, Q(1200)))
          /\ schedule[k].Zalyshok = QSub(before, schedule[k].Tilo)

\* A schedule with records of both branches, at a positive rate.
C9_Witness ==
  /\ AtReturn
  /\ QGt(monthly_rate, Zero)
  /\ Len(schedule) >= 2
  /\ QGt(schedule[1].Zalyshok, Zero)
  /\ schedule[Len(schedule)].Zalyshok = Zero
  /\ QLt(schedule[Len(schedule)].Platizh, QAdd(base_payment, SuppliedExtra(Len(schedule))))

\* C10: in a returned schedule a record of the regular branch reports exactly the extra supplied for
\* its period; the payoff record reports max(0, total payment - base payment),
\* which is >= 0 and at most the extra supplied; and no total payment exceeds
\* the balance before the period plus its interest.
C10_ExtraBounded ==
  AtReturn =>
    \A k \in 1 .. Len(schedule) :
      LET rec == schedule[k]
          owed == QAdd(BalanceBefore(schedule, k), rec.Vidsotky)
      IN  /\ QLeq(rec.Platizh, owed)
          /\ QGeq(rec.Dostrokovo, Zero)
          /\ QLeq(rec.Dostrokovo, SuppliedExtra(k))
          /\ IF QLt(QAdd(base_payment, SuppliedExtra(k)), owed)
             THEN rec.Dostrokovo = SuppliedExtra(k)
             ELSE /\ rec.Platizh = owed
                  /\ rec.Dostrokovo = QMax(Zero, QSub(rec.Platizh, base_payment))

\* A payoff record that reports part, but not all, of the extra supplied.
C10_Witness ==
  /\ AtReturn
  /\ Len(schedule) >= 2
  /\ LET n == Len(schedule)
     IN  /\ schedule[n].Zalyshok = Zero
         /\ QGt(schedule[n].Dostrokovo, Zero)
         /\ QLt(schedule[n].Dostrokovo, SuppliedExtra(n))
         /\ schedule[1].Dostrokovo = SuppliedExtra(1)

====
